---- MODULE Spec2Model ----
(***************************************************************************)
(* A model of main.py: the Car, Customer and SalesContract classes, the    *)
(* CarDealership aggregate and the interactive console loop.               *)
(*                                                                         *)
(* Python values are records [t, s, n]: t is the type tag, s the text of a *)
(* str (a sequence of characters), n the value of a number or the identity *)
(* of an object.  Numbers are integers; the class-level counters are the   *)
(* next value itertools.count hands out.  Each method is an operator from  *)
(* a world (the counters, the three kinds of objects and the dealership's  *)
(* list) to [w, exc, val]: the world after the call, the message of the    *)
(* ValueError raised (OK when none) and the value returned.                *)
(***************************************************************************)
EXTENDS Integers, Sequences, FiniteSets, TLC

VARIABLES
    Car_ids,            \* Car._ids: the next identifier it yields
    Customer_ids,       \* Customer._ids
    SalesContract_ids,  \* SalesContract._ids
    carObj,             \* the Car objects constructed, by identity
    custObj,            \* the Customer objects constructed, by identity
    contractObj,        \* the SalesContract objects constructed, by identity
    cars,               \* dealership.cars: a list of Car references
    ret,                \* the last call: its name, arguments and outcome
    created,            \* history: the identifiers constructed, in order, by class
    calls,              \* history: the number of calls made so far
    sold,               \* history: the cars sell_car returned a contract for
    pc,                 \* the console loop: "off", "menu", "dispatch", "done", "crashed"
    choice,             \* the console loop's variable choice
    customersDefined,   \* 'customers' in globals()
    customers,          \* the global list customers, once defined
    customer,           \* the global customer (0: unbound or None)
    out,                \* what the last handler printed
    prompts,            \* the prompts the last handler issued
    inp,                \* the lines the last handler read
    handled             \* history: the choices handled so far

worldVars == <<Car_ids, Customer_ids, SalesContract_ids, carObj, custObj, contractObj, cars>>
histVars == <<ret, created, sold, calls>>
menuVars == <<pc, choice, customersDefined, customers, customer, out, prompts, inp, handled>>
vars == <<worldVars, histVars, menuVars>>

(***************************************************************************)
(* Bounds of the model.                                                    *)
(***************************************************************************)
MaxCalls == 6
MaxEntityCalls == 5
MaxChoices == 5

(***************************************************************************)
(* Python values.                                                          *)
(***************************************************************************)
OK == "ok"
Str(s) == [t |-> "str", s |-> s, n |-> 0]
Num(k) == [t |-> "num", s |-> <<>>, n |-> k]
Bool(b) == [t |-> "bool", s |-> <<>>, n |-> IF b THEN 1 ELSE 0]
Ref(kind, id) == [t |-> kind, s |-> <<>>, n |-> id]
None == [t |-> "NoneType", s |-> <<>>, n |-> 0]

Range(f) == {f[i] : i \in DOMAIN f}

\* Car.make setter
Car_make_set(obj, value) ==
    IF value.t # "str"
    THEN [obj |-> obj, exc |-> "Make must be a string"]
    ELSE IF value.s = <<>>
    THEN [obj |-> obj, exc |-> "Make cannot be empty"]
    ELSE [obj |-> [obj EXCEPT !.make = value], exc |-> OK]

\* Car.model setter
Car_model_set(obj, value) ==
    IF value.t # "str"
    THEN [obj |-> obj, exc |-> "Model must be a string"]
    ELSE IF value.s = <<>>
    THEN [obj |-> obj, exc |-> "Model cannot be empty"]
    ELSE [obj |-> [obj EXCEPT !.model = value], exc |-> OK]

\* Car.price setter that lets a negative number through
Car_price_set_unchecked(obj, value) ==
    IF value.t # "num"
    THEN [obj |-> obj, exc |-> "Price must be a number"]
    ELSE [obj |-> [obj EXCEPT !.price = value], exc |-> OK]

\* Car.price setter
Car_price_set(obj, value) ==
    IF value.t # "num"
    THEN [obj |-> obj, exc |-> "Price must be a number"]
    ELSE IF value.n < 0
    THEN [obj |-> obj, exc |-> "Price cannot be negative"]
    ELSE [obj |-> [obj EXCEPT !.price = value], exc |-> OK]

\* Car.__init__: the identifier is drawn first, then the three setters run
Car_init(w, make, model, price) ==
    LET id == w.Car_ids
        w1 == [w EXCEPT !.Car_ids = id + 1]
        o0 == [id |-> id, make |-> None, model |-> None, price |-> None]
        r1 == Car_make_set(o0, make)
        r2 == Car_model_set(r1.obj, model)
        r3 == Car_price_set(r2.obj, price)
    IN  IF r1.exc # OK THEN [w |-> w1, exc |-> r1.exc, val |-> None]
        ELSE IF r2.exc # OK THEN [w |-> w1, exc |-> r2.exc, val |-> None]
        ELSE IF r3.exc # OK THEN [w |-> w1, exc |-> r3.exc, val |-> None]
        ELSE [w |-> [w1 EXCEPT !.carObj = (id :> r3.obj) @@ @],
              exc |-> OK, val |-> Ref("Car", id)]

\* Customer.name setter
Customer_name_set(obj, value) ==
    IF value.t # "str"
    THEN [obj |-> obj, exc |-> "Name must be a string"]
    ELSE IF value.s = <<>>
    THEN [obj |-> obj, exc |-> "Name cannot be empty"]
    ELSE [obj |-> [obj EXCEPT !.name = value], exc |-> OK]

\* Customer.balance setter that lets a negative number through
Customer_balance_set_unchecked(obj, value) ==
    IF value.t # "num"
    THEN [obj |-> obj, exc |-> "Balance must be a number"]
    ELSE [obj |-> [obj EXCEPT !.balance = value], exc |-> OK]

\* Customer.balance setter
Customer_balance_set(obj, value) ==
    IF value.t # "num"
    THEN [obj |-> obj, exc |-> "Balance must be a number"]
    ELSE IF value.n < 0
    THEN [obj |-> obj, exc |-> "Balance cannot be negative"]
    ELSE [obj |-> [obj EXCEPT !.balance = value], exc |-> OK]

\* Customer.__init__ drawing its identifier from Car's counter
Customer_init_shared(w, name, balance) ==
    LET id == w.Car_ids
        w1 == [w EXCEPT !.Car_ids = id + 1]
        o0 == [id |-> id, name |-> None, balance |-> None]
        r1 == Customer_name_set(o0, name)
        r2 == Customer_balance_set(r1.obj, balance)
    IN  IF r1.exc # OK THEN [w |-> w1, exc |-> r1.exc, val |-> None]
        ELSE IF r2.exc # OK THEN [w |-> w1, exc |-> r2.exc, val |-> None]
        ELSE [w |-> [w1 EXCEPT !.custObj = (id :> r2.obj) @@ @],
              exc |-> OK, val |-> Ref("Customer", id)]

\* Customer.__init__
Customer_init(w, name, balance) ==
    LET id == w.Customer_ids
        w1 == [w EXCEPT !.Customer_ids = id + 1]
        o0 == [id |-> id, name |-> None, balance |-> None]
        r1 == Customer_name_set(o0, name)
        r2 == Customer_balance_set(r1.obj, balance)
    IN  IF r1.exc # OK THEN [w |-> w1, exc |-> r1.exc, val |-> None]
        ELSE IF r2.exc # OK THEN [w |-> w1, exc |-> r2.exc, val |-> None]
        ELSE [w |-> [w1 EXCEPT !.custObj = (id :> r2.obj) @@ @],
              exc |-> OK, val |-> Ref("Customer", id)]

\* Customer.buy_car: self.balance -= car.price goes through the balance setter
Customer_buy_car(w, u, c) ==
    LET cu == w.custObj[u]
        ca == w.carObj[c]
    IN  IF cu.balance.n >= ca.price.n
        THEN LET r == Customer_balance_set(cu, Num(cu.balance.n - ca.price.n))
             IN  IF r.exc # OK THEN [w |-> w, exc |-> r.exc, val |-> None]
                 ELSE [w |-> [w EXCEPT !.custObj[u] = r.obj], exc |-> OK, val |-> Bool(TRUE)]
        ELSE [w |-> w, exc |-> OK, val |-> Bool(FALSE)]

\* SalesContract.__init__ (the date it stamps is not modelled)
SalesContract_init(w, u, c) ==
    LET id == w.SalesContract_ids
    IN  [w |-> [w EXCEPT !.SalesContract_ids = id + 1,
                         !.contractObj = (id :> [id |-> id, customer |-> u, car |-> c]) @@ @],
         exc |-> OK, val |-> Ref("SalesContract", id)]

\* CarDealership.add_car
add_car(w, c) ==
    [w |-> [w EXCEPT !.cars = Append(@, c)], exc |-> OK, val |-> None]

\* a removal that drops every element equal to x
list_remove_all(l, x) == SelectSeq(l, LAMBDA e : e # x)

\* list.remove(x): drops the first element equal to x
list_remove(l, x) ==
    LET i == CHOOSE k \in 1..Len(l) : l[k] = x /\ \A j \in 1..(k - 1) : l[j] # x
    IN  SubSeq(l, 1, i - 1) \o SubSeq(l, i + 1, Len(l))

\* next((car for car in self.cars if car.id == car_id), None): 0 stands for None
find_car(w, car_id) ==
    IF \E k \in 1..Len(w.cars) : w.carObj[w.cars[k]].id = car_id
    THEN w.cars[CHOOSE k \in 1..Len(w.cars) :
                    /\ w.carObj[w.cars[k]].id = car_id
                    /\ \A j \in 1..(k - 1) : w.carObj[w.cars[j]].id # car_id]
    ELSE 0

\* sell_car taking the car out of the list before the customer has paid
sell_car_remove_first(w, u, car_id) ==
    LET car == find_car(w, car_id)
    IN  IF car = 0 THEN [w |-> w, exc |-> OK, val |-> None]
        ELSE LET w1 == [w EXCEPT !.cars = list_remove(@, car)]
                 b == Customer_buy_car(w1, u, car)
             IN  IF b.exc # OK THEN [w |-> b.w, exc |-> b.exc, val |-> None]
                 ELSE IF b.val = Bool(TRUE)
                 THEN SalesContract_init(b.w, u, car)
                 ELSE [w |-> b.w, exc |-> OK, val |-> None]

\* CarDealership.sell_car
sell_car(w, u, car_id) ==
    LET car == find_car(w, car_id)
    IN  IF car = 0 THEN [w |-> w, exc |-> OK, val |-> None]
        ELSE LET b == Customer_buy_car(w, u, car)
             IN  IF b.exc # OK THEN [w |-> b.w, exc |-> b.exc, val |-> None]
                 ELSE IF b.val = Bool(TRUE)
                 THEN SalesContract_init([b.w EXCEPT !.cars = list_remove(@, car)], u, car)
                 ELSE [w |-> b.w, exc |-> OK, val |-> None]

\* car.make = value, car.model = value, car.price = value on the car c
Car_make_assign(w, c, value) ==
    LET r == Car_make_set(w.carObj[c], value)
    IN  [w |-> [w EXCEPT !.carObj[c] = r.obj], exc |-> r.exc, val |-> None]

Car_model_assign(w, c, value) ==
    LET r == Car_model_set(w.carObj[c], value)
    IN  [w |-> [w EXCEPT !.carObj[c] = r.obj], exc |-> r.exc, val |-> None]

Car_price_assign(w, c, value) ==
    LET r == Car_price_set(w.carObj[c], value)
    IN  [w |-> [w EXCEPT !.carObj[c] = r.obj], exc |-> r.exc, val |-> None]

\* customer.name = value, customer.balance = value on the customer u
Customer_name_assign(w, u, value) ==
    LET r == Customer_name_set(w.custObj[u], value)
    IN  [w |-> [w EXCEPT !.custObj[u] = r.obj], exc |-> r.exc, val |-> None]

Customer_balance_assign(w, u, value) ==
    LET r == Customer_balance_set(w.custObj[u], value)
    IN  [w |-> [w EXCEPT !.custObj[u] = r.obj], exc |-> r.exc, val |-> None]

(***************************************************************************)
(* The state as a world, and the outcome of a call as the next state.      *)
(***************************************************************************)
World ==
    [Car_ids |-> Car_ids, Customer_ids |-> Customer_ids,
     SalesContract_ids |-> SalesContract_ids, carObj |-> carObj,
     custObj |-> custObj, contractObj |-> contractObj, cars |-> cars]

Call(op, args, r) == [op |-> op, args |-> args, exc |-> r.exc, val |-> r.val]

NoCall == [op |-> "", args |-> <<>>, exc |-> OK, val |-> None]

\* The call op(args) ended as r: the world it left, and the history.
Record(op, args, r) ==
    /\ Car_ids' = r.w.Car_ids
    /\ Customer_ids' = r.w.Customer_ids
    /\ SalesContract_ids' = r.w.SalesContract_ids
    /\ carObj' = r.w.carObj
    /\ custObj' = r.w.custObj
    /\ contractObj' = r.w.contractObj
    /\ cars' = r.w.cars
    /\ ret' = Call(op, args, r)
    /\ created' = IF r.exc = OK /\ r.val.t \in {"Car", "Customer", "SalesContract"}
                  THEN [created EXCEPT ![r.val.t] = Append(@, r.val.n)]
                  ELSE created
    /\ sold' = IF op = "sell_car" /\ r.exc = OK /\ r.val # None
               THEN sold \cup {r.w.contractObj[r.val.n].car}
               ELSE sold

Empty == [x \in {} |-> None]

InitWorld(c, u, s) ==
    /\ Car_ids = c
    /\ Customer_ids = u
    /\ SalesContract_ids = s
    /\ carObj = Empty
    /\ custObj = Empty
    /\ contractObj = Empty
    /\ cars = <<>>
    /\ ret = NoCall
    /\ created = [Car |-> <<>>, Customer |-> <<>>, SalesContract |-> <<>>]
    /\ sold = {}
    /\ calls = 0

InitMenuVars(p) ==
    /\ pc = p
    /\ choice = <<>>
    /\ customersDefined = FALSE
    /\ customers = <<>>
    /\ customer = 0
    /\ out = <<>>
    /\ prompts = <<>>
    /\ inp = <<>>
    /\ handled = {}

(***************************************************************************)
(* The classes used directly, as the tests use them.                       *)
(***************************************************************************)
Init == InitWorld(1, 1, 1) /\ InitMenuVars("off")

\* One more call is made, of at most max.
Called(max) ==
    /\ calls < max
    /\ calls' = calls + 1
    /\ UNCHANGED menuVars

\* Car(make, model, price)
NewCar(make, model, price) ==
    Record("Car", <<make, model, price>>, Car_init(World, make, model, price))

\* car.make = value
SetMake(c, value) ==
    Record("make", <<Ref("Car", c), value>>, Car_make_assign(World, c, value))

\* car.model = value
SetModel(c, value) ==
    Record("model", <<Ref("Car", c), value>>, Car_model_assign(World, c, value))

\* car.price = value
SetPrice(c, value) ==
    Record("price", <<Ref("Car", c), value>>, Car_price_assign(World, c, value))

\* Customer(name, balance)
NewCustomer(name, balance) ==
    Record("Customer", <<name, balance>>, Customer_init(World, name, balance))

\* customer.name = value
SetName(u, value) ==
    Record("name", <<Ref("Customer", u), value>>, Customer_name_assign(World, u, value))

\* customer.balance = value
SetBalance(u, value) ==
    Record("balance", <<Ref("Customer", u), value>>, Customer_balance_assign(World, u, value))

\* customer.buy_car(car)
BuyCar(u, c) ==
    Record("buy_car", <<Ref("Customer", u), Ref("Car", c)>>, Customer_buy_car(World, u, c))

\* SalesContract(customer, car)
NewContract(u, c) ==
    Record("SalesContract", <<Ref("Customer", u), Ref("Car", c)>>,
              SalesContract_init(World, u, c))

\* dealership.add_car(car)
AddCar(c) ==
    Record("add_car", <<Ref("Car", c)>>, add_car(World, c))

\* dealership.sell_car(customer, car_id)
SellCar(u, car_id) ==
    Record("sell_car", <<Ref("Customer", u), Num(car_id)>>, sell_car(World, u, car_id))

\* The arguments the calls are tried with.
Toyota == <<"T">>
Honda == <<"H">>
Amounts == {Num(-1), Num(0), Num(1), Num(2)}

\* The dealership's workflow: cars and customers are built, balances assigned,
\* cars added, bought and sold.
Next ==
    \/ \E price \in Amounts :
           Called(MaxCalls) /\ NewCar(Str(Toyota), Str(Honda), price)
    \/ \E balance \in Amounts :
           Called(MaxCalls) /\ NewCustomer(Str(Toyota), balance)
    \/ \E u \in DOMAIN custObj, value \in Amounts :
           Called(MaxCalls) /\ SetBalance(u, value)
    \/ \E u \in DOMAIN custObj, c \in DOMAIN carObj :
           Called(MaxCalls) /\ BuyCar(u, c)
    \/ \E c \in DOMAIN carObj :
           Called(MaxCalls) /\ AddCar(c)
    \/ \E u \in DOMAIN custObj, car_id \in 0..(Car_ids - 1) :
           Called(MaxCalls) /\ SellCar(u, car_id)

Spec == Init /\ [][Next]_vars

\* The entities: every construction and every assignment, valid or not.
Names == {Str(Toyota), Str(<<>>), None}
Prices == {Num(-1), Num(0), Num(1), None}

NextEntity ==
    \/ \E make \in Names, model \in Names, price \in Prices :
           Called(MaxEntityCalls) /\ NewCar(make, model, price)
    \/ \E c \in DOMAIN carObj, value \in Names \cup {Str(Honda)} :
           Called(MaxEntityCalls) /\ SetMake(c, value)
    \/ \E c \in DOMAIN carObj, value \in Names \cup {Str(Honda)} :
           Called(MaxEntityCalls) /\ SetModel(c, value)
    \/ \E c \in DOMAIN carObj, value \in Prices :
           Called(MaxEntityCalls) /\ SetPrice(c, value)
    \/ \E name \in Names, balance \in Prices :
           Called(MaxEntityCalls) /\ NewCustomer(name, balance)
    \/ \E u \in DOMAIN custObj, value \in Names \cup {Str(Honda)} :
           Called(MaxEntityCalls) /\ SetName(u, value)
    \/ \E u \in DOMAIN custObj, value \in Prices :
           Called(MaxEntityCalls) /\ SetBalance(u, value)
    \/ \E u \in DOMAIN custObj, c \in DOMAIN carObj :
           Called(MaxEntityCalls) /\ BuyCar(u, c)
    \/ \E u \in DOMAIN custObj, c \in DOMAIN carObj :
           Called(MaxEntityCalls) /\ NewContract(u, c)

SpecEntity == Init /\ [][NextEntity]_vars

(***************************************************************************)
(* The console loop.  Lines typed are sequences of characters; float() and *)
(* int() read an optional sign and decimal digits, which is what they      *)
(* accept over the characters the lines here are made of.                  *)
(***************************************************************************)
Digits == {"0", "1", "2", "3", "4", "5", "6", "7", "8", "9"}

DigitValue(d) ==
    CASE d = "0" -> 0 [] d = "1" -> 1 [] d = "2" -> 2 [] d = "3" -> 3 [] d = "4" -> 4
      [] d = "5" -> 5 [] d = "6" -> 6 [] d = "7" -> 7 [] d = "8" -> 8 [] d = "9" -> 9

RECURSIVE DecimalValue(_)
DecimalValue(ds) ==
    IF ds = <<>> THEN 0
    ELSE 10 * DecimalValue(SubSeq(ds, 1, Len(ds) - 1)) + DigitValue(ds[Len(ds)])

\* float(line) and int(line): ValueError unless the line is a signed decimal
ParseNumber(line) ==
    LET signed == line # <<>> /\ line[1] \in {"-", "+"}
        body == IF signed THEN Tail(line) ELSE line
    IN  IF body = <<>> \/ \E i \in 1..Len(body) : body[i] \notin Digits
        THEN [exc |-> "ValueError", val |-> None]
        ELSE [exc |-> OK,
              val |-> Num(IF signed /\ line[1] = "-"
                          THEN 0 - DecimalValue(body) ELSE DecimalValue(body))]

float(line) == ParseNumber(line)
int(line) == ParseNumber(line)

\* A printed line: its fixed text and the value rendered into it.
Line(text, of) == [text |-> text, of |-> of]

NoCustomers == Line("No customers available. Please add a customer first.", None)

\* The counters when the loop starts: unittest.main has run the ten tests, which
\* built 12 cars, 7 customers and 2 contracts.
TestCars == 12
TestCustomers == 7
TestContracts == 2

InitMenu ==
    /\ InitWorld(TestCars + 1, TestCustomers + 1, TestContracts + 1)
    /\ InitMenuVars("menu")

\* The handler of the choice read ends: what it prompted for, read and
\* printed, and where the loop goes.
Handled(ps, lines, printed, to) ==
    /\ prompts' = ps
    /\ inp' = lines
    /\ out' = printed
    /\ pc' = to
    /\ handled' = handled \cup {choice}
    /\ UNCHANGED <<choice, calls>>

\* The menu is printed and the choice is read.
Enter(line) ==
    /\ pc = "menu"
    /\ calls < MaxChoices
    /\ calls' = calls + 1
    /\ choice' = line
    /\ pc' = "dispatch"
    /\ prompts' = <<>>
    /\ inp' = <<>>
    /\ out' = <<>>
    /\ UNCHANGED <<worldVars, ret, created, sold, customersDefined, customers, customer, handled>>

\* choice == "1": Add a Car
Choice1(make, model, price) ==
    /\ pc = "dispatch" /\ choice = <<"1">>
    /\ UNCHANGED <<customersDefined, customers, customer>>
    /\ LET ps == <<"Enter car make: ", "Enter car model: ", "Enter car price: ">>
           p == float(price)
           r == Car_init(World, Str(make), Str(model), p.val)
       IN  IF p.exc # OK
           THEN /\ Record("float", <<Str(price)>>, [w |-> World, exc |-> p.exc, val |-> None])
                /\ Handled(ps, <<make, model, price>>, <<>>, "crashed")
           ELSE IF r.exc # OK
           THEN /\ Record("Car", <<Str(make), Str(model), p.val>>, r)
                /\ Handled(ps, <<make, model, price>>, <<>>, "crashed")
           ELSE /\ Record("Car", <<Str(make), Str(model), p.val>>,
                          [w |-> add_car(r.w, r.val.n).w, exc |-> OK, val |-> r.val])
                /\ Handled(ps, <<make, model, price>>,
                           <<Line("Car added to the dealership.", r.val)>>, "menu")

\* choice == "2": List All Cars
Choice2 ==
    /\ pc = "dispatch" /\ choice = <<"2">>
    /\ UNCHANGED <<worldVars, ret, created, sold, customersDefined, customers, customer>>
    /\ Handled(<<>>, <<>>,
               <<Line("Cars in dealership:", None)>>
                   \o [i \in 1..Len(cars) |-> Line("Car", Ref("Car", cars[i]))],
               "menu")

\* choice == "3" with the customer appended to the list customers
Choice3_keeping(name, balance) ==
    /\ pc = "dispatch" /\ choice = <<"3">>
    /\ LET ps == <<"Enter customer name: ", "Enter customer balance: ">>
           b == float(balance)
           r == Customer_init(World, Str(name), b.val)
       IN  IF b.exc # OK
           THEN /\ Record("float", <<Str(balance)>>, [w |-> World, exc |-> b.exc, val |-> None])
                /\ UNCHANGED <<customer, customersDefined, customers>>
                /\ Handled(ps, <<name, balance>>, <<>>, "crashed")
           ELSE IF r.exc # OK
           THEN /\ Record("Customer", <<Str(name), b.val>>, r)
                /\ UNCHANGED <<customer, customersDefined, customers>>
                /\ Handled(ps, <<name, balance>>, <<>>, "crashed")
           ELSE /\ Record("Customer", <<Str(name), b.val>>, r)
                /\ customer' = r.val.n
                /\ customersDefined' = TRUE
                /\ customers' = Append(customers, r.val.n)
                /\ Handled(ps, <<name, balance>>, <<Line("Customer added.", r.val)>>, "menu")

\* choice == "3": Add a Customer; the customer is bound to the global customer
Choice3(name, balance) ==
    /\ pc = "dispatch" /\ choice = <<"3">>
    /\ UNCHANGED <<customersDefined, customers>>
    /\ LET ps == <<"Enter customer name: ", "Enter customer balance: ">>
           b == float(balance)
           r == Customer_init(World, Str(name), b.val)
       IN  IF b.exc # OK
           THEN /\ Record("float", <<Str(balance)>>, [w |-> World, exc |-> b.exc, val |-> None])
                /\ customer' = customer
                /\ Handled(ps, <<name, balance>>, <<>>, "crashed")
           ELSE IF r.exc # OK
           THEN /\ Record("Customer", <<Str(name), b.val>>, r)
                /\ customer' = customer
                /\ Handled(ps, <<name, balance>>, <<>>, "crashed")
           ELSE /\ Record("Customer", <<Str(name), b.val>>, r)
                /\ customer' = r.val.n
                /\ Handled(ps, <<name, balance>>, <<Line("Customer added.", r.val)>>, "menu")

\* choice == "4" with its list bound where the later choices do not see it
Choice4_unbound ==
    /\ pc = "dispatch" /\ choice = <<"4">>
    /\ UNCHANGED <<worldVars, ret, created, sold, customer, customersDefined, customers>>
    /\ Handled(<<>>, <<>>, <<Line("Customers:", None)>>, "menu")

\* choice == "4": List All Customers; binds customers to [] when it is unbound
Choice4 ==
    /\ pc = "dispatch" /\ choice = <<"4">>
    /\ UNCHANGED <<worldVars, ret, created, sold, customer>>
    /\ customersDefined' = TRUE
    /\ customers' = IF customersDefined THEN customers ELSE <<>>
    /\ Handled(<<>>, <<>>,
               <<Line("Customers:", None)>>
                   \o [i \in 1..Len(customers') |-> Line("Customer", Ref("Customer", customers'[i]))],
               "menu")

\* next((cust for cust in customers if cust.name == cust_name), None): 0 for None
find_customer(w, l, cust_name) ==
    IF \E k \in 1..Len(l) : w.custObj[l[k]].name = Str(cust_name)
    THEN l[CHOOSE k \in 1..Len(l) :
               /\ w.custObj[l[k]].name = Str(cust_name)
               /\ \A j \in 1..(k - 1) : w.custObj[l[j]].name # Str(cust_name)]
    ELSE 0

\* choice == "5": Sell a Car
Choice5(cust_name, car_id) ==
    /\ pc = "dispatch" /\ choice = <<"5">>
    /\ UNCHANGED <<customersDefined, customers>>
    /\ IF ~customersDefined
       THEN /\ UNCHANGED <<worldVars, ret, created, sold, customer>>
            /\ Handled(<<>>, <<>>, <<NoCustomers>>, "menu")
       ELSE LET found == find_customer(World, customers, cust_name)
                id == int(car_id)
                ps == <<"Enter customer name: ", "Enter car ID to sell: ">>
                r == sell_car(World, found, id.val.n)
            IN  /\ customer' = found
                /\ IF found = 0
                   THEN /\ UNCHANGED <<worldVars, ret, created, sold>>
                        /\ Handled(<<"Enter customer name: ">>, <<cust_name>>,
                                   <<Line("No customer found with name", Str(cust_name))>>,
                                   "menu")
                   ELSE IF id.exc # OK
                   THEN /\ Record("int", <<Str(car_id)>>,
                                  [w |-> World, exc |-> id.exc, val |-> None])
                        /\ Handled(ps, <<cust_name, car_id>>, <<>>, "crashed")
                   ELSE /\ Record("sell_car", <<Ref("Customer", found), id.val>>, r)
                        /\ Handled(ps, <<cust_name, car_id>>,
                                   IF r.val # None
                                   THEN <<Line("Car sold successfully! Contract:", r.val)>>
                                   ELSE <<Line("Transaction failed. Either car not found or insufficient funds.", None)>>,
                                   "menu")

\* choice == "6" without the break
Choice6_continue ==
    /\ pc = "dispatch" /\ choice = <<"6">>
    /\ UNCHANGED <<worldVars, ret, created, sold, customersDefined, customers, customer>>
    /\ Handled(<<>>, <<>>, <<Line("Exiting...", None)>>, "menu")

\* choice == "6": Exit
Choice6 ==
    /\ pc = "dispatch" /\ choice = <<"6">>
    /\ UNCHANGED <<worldVars, ret, created, sold, customersDefined, customers, customer>>
    /\ Handled(<<>>, <<>>, <<Line("Exiting...", None)>>, "done")

\* else: any other line
ChoiceOther ==
    /\ pc = "dispatch"
    /\ choice \notin {<<"1">>, <<"2">>, <<"3">>, <<"4">>, <<"5">>, <<"6">>}
    /\ UNCHANGED <<worldVars, ret, created, sold, customersDefined, customers, customer>>
    /\ Handled(<<>>, <<>>, <<Line("Invalid choice, please try again.", None)>>, "menu")

\* The lines the operator types.
ChoiceLines == {<<"1">>, <<"2">>, <<"3">>, <<"4">>, <<"5">>, <<"6">>, <<"7">>, <<>>}
TextLines == {Toyota, <<>>}
NumberLines == {<<"1">>, <<"0">>, <<"-", "1">>, <<"x">>}
IdLines == {<<"1", "3">>, <<"1">>, <<"x">>}

Dispatch ==
    \/ \E make \in TextLines, model \in TextLines, price \in NumberLines :
           Choice1(make, model, price)
    \/ Choice2
    \/ \E name \in TextLines, balance \in NumberLines : Choice3(name, balance)
    \/ Choice4
    \/ \E cust_name \in TextLines, car_id \in IdLines : Choice5(cust_name, car_id)
    \/ Choice6
    \/ ChoiceOther

NextMenu ==
    \/ \E line \in ChoiceLines : Enter(line)
    \/ Dispatch

SpecMenu == InitMenu /\ [][NextMenu]_vars

\* The program runs the handler of a choice it has read.
SpecMenuFair == SpecMenu /\ WF_vars(Dispatch)

(***************************************************************************)
(* Properties of the classes.                                              *)
(***************************************************************************)
\* The balance of customer u and the price of car c, in the current state.
Balance(u) == custObj[u].balance.n
Price(c) == carObj[c].price.n

\* sell_car(u, car_id) has a car to sell and a customer who can pay for it.
CanSell(u, car_id) ==
    \E c \in Range(cars) : carObj[c].id = car_id /\ Balance(u) >= Price(c)

\* l without its element at position i.
Without(l, i) == [j \in 1..(Len(l) - 1) |-> IF j < i THEN l[j] ELSE l[j + 1]]

C2_FailedSaleChangesNothing ==
    [][\A u \in DOMAIN custObj, car_id \in 0..(Car_ids - 1) :
          ( /\ ret'.op = "sell_car"
            /\ ret'.args = <<Ref("Customer", u), Num(car_id)>>
            /\ ~CanSell(u, car_id) )
          => /\ ret'.exc = OK
             /\ ret'.val = None
             /\ cars' = cars
             /\ custObj' = custObj
             /\ contractObj' = contractObj
             /\ SalesContract_ids' = SalesContract_ids]_vars

\* A sale failed for want of funds: the car asked for is in the inventory.
C2_Witness ==
    /\ ret.op = "sell_car"
    /\ ret.val = None
    /\ \E c \in Range(cars) : carObj[c].id = ret.args[2].n /\ Price(c) > Balance(ret.args[1].n)

\* C3: no car in the inventory has been sold: every car sell_car returned a
\* contract for is absent from the inventory, whatever cars add_car was given.
C3_SoldCarsAreGone == \A c \in sold : c \notin Range(cars)

C5_CarIdsAreOneToN == created.Car = [i \in 1..Len(created.Car) |-> i]

Increasing(l) == \A i, j \in 1..Len(l) : i < j => l[i] < l[j]

\* C6: within each class the identifiers of the objects constructed are
\* different and grow with the order of construction, and a construction of
\* one class, failed or not, leaves the counters of the other two alone.
C6_CountersIndependent ==
    [][/\ Increasing(created'.Car)
       /\ Increasing(created'.Customer)
       /\ Increasing(created'.SalesContract)
       /\ ret'.op = "Car" =>
             Customer_ids' = Customer_ids /\ SalesContract_ids' = SalesContract_ids
       /\ ret'.op = "Customer" =>
             Car_ids' = Car_ids /\ SalesContract_ids' = SalesContract_ids
       /\ ret'.op \in {"SalesContract", "sell_car"} =>
             Car_ids' = Car_ids /\ Customer_ids' = Customer_ids]_vars

\* Two objects of each class exist, and a construction has failed.
C6_Witness ==
    /\ Len(created.Car) >= 1
    /\ Len(created.Customer) >= 1
    /\ Len(created.SalesContract) >= 2
    /\ Car_ids + Customer_ids > Len(created.Car) + Len(created.Customer) + 2

EmptyText(v) == v.t = "str" /\ v.s = <<>>
Negative(v) == v.t = "num" /\ v.n < 0
ValidText(v) == v.t = "str" /\ v.s # <<>>
ValidAmount(v) == v.t = "num" /\ v.n >= 0

After(line) == choice = line /\ pc # "dispatch"

\* C8: choice 5 always reports that no customers are available and gives the
\* sale up without asking for a customer name, whatever choices came before.
C8_Choice5AlwaysNoCustomers ==
    After(<<"5">>) => out = <<NoCustomers>> /\ prompts = <<>>

\* C8, amended: choice 5 reports that no customers are available, asking for
\* nothing, until choice 4 has been handled once; from then on it asks for the
\* customer name and reports that no customer has that name.  Either way the
\* sale is given up before sell_car is called and the menu comes back.
C8_Choice5AfterChoice4 ==
    After(<<"5">>) =>
        /\ pc = "menu"
        /\ ret.op # "sell_car"
        /\ IF <<"4">> \in handled
           THEN /\ prompts = <<"Enter customer name: ">>
                /\ out = <<Line("No customer found with name", Str(inp[1]))>>
           ELSE /\ prompts = <<>>
                /\ out = <<NoCustomers>>

\* Choice 5 was handled after a customer was added and the customers listed.
C8_Witness ==
    /\ After(<<"5">>)
    /\ <<"4">> \in handled
    /\ customer = 0
    /\ DOMAIN custObj # {}

\* C9: a customer added by choice 3 is never where choices 4 and 5 look:
\* choice 4 prints no customer, choice 5 finds none and never calls sell_car,
\* so every car added in the session stays in the inventory and no
\* SalesContract is constructed.
C9_CustomersNeverRetained ==
    /\ customers = <<>>
    /\ After(<<"4">>) => out = <<Line("Customers:", None)>>
    /\ (After(<<"5">>) /\ prompts # <<>>) => customer = 0
    /\ ret.op # "sell_car"
    /\ cars = created.Car
    /\ contractObj = Empty
    /\ SalesContract_ids = TestContracts + 1

\* Choice 5 asked for a name an added customer has, with a car in the inventory.
C9_Witness ==
    /\ After(<<"5">>)
    /\ inp # <<>>
    /\ \E u \in DOMAIN custObj : custObj[u].name = Str(inp[1])
    /\ cars # <<>>

\* The lines a handler read parse: the texts are not empty, the numbers are
\* signed decimals.
WellFormedInput(ch, lines) ==
    CASE ch = <<"1">> ->
             lines[1] # <<>> /\ lines[2] # <<>> /\ float(lines[3]).exc = OK
      [] ch = <<"3">> -> lines[1] # <<>> /\ float(lines[2]).exc = OK
      [] ch = <<"5">> -> Len(lines) >= 2 => int(lines[2]).exc = OK
      [] OTHER -> TRUE

\* ... and the price and the balance are not negative.
ValidInput(ch, lines) ==
    /\ WellFormedInput(ch, lines)
    /\ ch = <<"1">> => float(lines[3]).val.n >= 0
    /\ ch = <<"3">> => float(lines[2]).val.n >= 0

\* C10: with numeric input that parses and non-empty texts, every choice but
\* "6" is followed by the menu (a choice that is none of "1".."6" reporting
\* that it is invalid), "6" prints "Exiting..." and ends the loop, the loop
\* ends on no other choice, and once "6" has been entered the loop ends.
C10_MenuFollowsWellFormedInput ==
    /\ [][(pc = "dispatch" /\ WellFormedInput(choice, inp'))
          => IF choice = <<"6">>
             THEN pc' = "done" /\ out' = <<Line("Exiting...", None)>>
             ELSE /\ pc' = "menu"
                  /\ choice \notin {<<"1">>, <<"2">>, <<"3">>, <<"4">>, <<"5">>}
                     => out' = <<Line("Invalid choice, please try again.", None)>>]_vars
    /\ [][pc' = "done" => pc = "dispatch" /\ choice = <<"6">>]_vars
    /\ (pc = "dispatch" /\ choice = <<"6">>) ~> (pc = "done")

\* C10, amended: with numeric input that parses to a number >= 0 where a
\* price or a balance is asked for, and non-empty texts, every choice but "6"
\* is followed by the menu (a choice that is none of "1".."6" reporting that
\* it is invalid), "6" prints "Exiting..." and ends the loop, the loop ends
\* normally on no other choice, and once "6" has been entered the loop ends.
C10_ExitEndsLoop ==
    /\ [][(pc = "dispatch" /\ ValidInput(choice, inp'))
          => IF choice = <<"6">>
             THEN pc' = "done" /\ out' = <<Line("Exiting...", None)>>
             ELSE /\ pc' = "menu"
                  /\ choice \notin {<<"1">>, <<"2">>, <<"3">>, <<"4">>, <<"5">>}
                     => out' = <<Line("Invalid choice, please try again.", None)>>]_vars
    /\ [][pc' = "done" => pc = "dispatch" /\ choice = <<"6">>]_vars
    /\ (pc = "dispatch" /\ choice = <<"6">>) ~> (pc = "done")

\* The loop ended after a car was added and an invalid choice was reported.
C10_Witness ==
    /\ pc = "done"
    /\ cars # <<>>
    /\ <<"7">> \in handled

====
